---- MODULE Spec2Model ----
(***************************************************************************)
(* Model of src/app.py: a Streamlit chat script that keeps a transcript in *)
(* st.session_state.messages, renders it into the provider's wire format,  *)
(* opens one streaming generate_content_stream call per user submission,   *)
(* accumulates the fragments and appends the result (or an error string)   *)
(* as the assistant turn.                                                  *)
(*                                                                         *)
(* Text is modelled as a sequence of tokens, so that concatenation (+ in   *)
(* the source) is \o here.  Python's None is the one-token text None,      *)
(* which no other text of the model equals.                                *)
(*                                                                         *)
(* The script is executed top to bottom on every Streamlit run.  A run     *)
(* without a submission has no suspension point and is one action.  A run  *)
(* with a submission suspends on the provider's stream, so it is cut at    *)
(* the call, at every fragment, and at the final append.                   *)
(***************************************************************************)
EXTENDS Integers, Sequences, FiniteSets, TLC

\* ------------------------------------------------------------------ bounds
MaxSubmissions == 2
MaxFragments == 2
MaxTurns == 3

\* ------------------------------------------------------- texts of the source
None == <<"None">>
SYSTEM_INSTRUCTION == <<"SYSTEM_INSTRUCTION">>
MODEL_NAME == <<"gemini-2.5-flash">>
WelcomeText == <<"WELCOME">>
NoKeyError == <<"NO_KEY_ERROR">>
NoKeyHint == <<"NO_KEY_HINT">>
ClientInitPrefix == <<"CLIENT_INIT_FAILED: ">>
ApiErrorPrefix == <<"API_ERROR: ">>
UnexpectedErrorPrefix == <<"UNEXPECTED_ERROR: ">>
Cursor == <<"CURSOR">>

Welcome == [role |-> "assistant", content |-> WelcomeText]

\* ------------------------------------------------- inputs of the environment
\* os.getenv("GEMINI_API_KEY"): unset, set to the empty string, or set.
ApiKeys == {"None", "", "key"}
\* What the user types into st.chat_input (never empty: the walrus test).
Prompts == {<<"p">>}
\* chunk.text of one streamed chunk: missing, empty, or a fragment of text.
ChunkTexts == {None, <<>>, <<"a">>, <<"b">>}
\* str(e) of a raised exception.
ExcTexts == {<<>>, <<"e">>}
\* What the provider call raises: an errors.APIError (or a subclass) with a
\* message, or another subclass of Exception whose str(e) is empty.
Exceptions == {[kind |-> "APIError", text |-> <<"e">>],
               [kind |-> "Exception", text |-> <<>>]}
NoException == [kind |-> "None", text |-> <<>>]
NoRequest == [model |-> None, contents |-> <<>>, system_instruction |-> None]

VARIABLES
    api_key,            \* the credential read at line 20
    client_error,       \* None, or str(e) of what genai.Client(...) raises
    messages_set,       \* "messages" in st.session_state
    messages,           \* st.session_state.messages
    pc,                 \* where the script is
    prompt,             \* the submitted text of this run
    history,            \* the rendered transcript of this run
    full_response,      \* the accumulator
    error_message,      \* set by the exception handlers
    message_placeholder,\* what the st.empty() slot shows; None: nothing yet
    errors_shown,       \* the st.error boxes drawn in this run
    received,           \* the chunk.text values taken from response_stream
    raised,             \* the exception the try block caught
    request,            \* the arguments of generate_content_stream
    submissions,        \* number of submissions the handler has taken
    calls               \* number of generate_content_stream calls made

vars == <<api_key, client_error, messages_set, messages, pc, prompt, history,
          full_response, error_message, message_placeholder, errors_shown,
          received, raised, request, submissions, calls>>

env == <<api_key, client_error>>
locals == <<prompt, history, full_response, error_message,
            message_placeholder, received, raised, request>>

\* ---------------------------------------------------------------- helpers
IsPrefix(s, t) == Len(s) <= Len(t) /\ SubSeq(t, 1, Len(s)) = s

\* `if chunk.text:` is false for None and for the empty string.
TruthyUnlessNone(text) == text # None
Truthy(text) == text # None /\ text # <<>>

\* role_map of line 66.
role_map_identity == [r \in {"user", "assistant"} |-> r]
role_map == [r \in {"user", "assistant"} |-> IF r = "user" THEN "user" ELSE "model"]

\* `history = []` of line 64: whatever history held before is discarded.
HistoryKept(previous) == previous
HistoryInit(previous) == <<>>

\* The loop of lines 65-70, started with the list `acc`: a turn whose role
\* is no key of role_map adds nothing.
RECURSIVE RenderLoopKeepingUnknown(_, _)
RenderLoopKeepingUnknown(acc, msgs) ==
    IF msgs = <<>> THEN acc
    ELSE LET message == Head(msgs)
             role == IF message.role \in DOMAIN role_map
                     THEN role_map[message.role] ELSE message.role
         IN RenderLoopKeepingUnknown(
                Append(acc, [role |-> role,
                             parts |-> <<[text |-> message.content]>>]),
                Tail(msgs))
RECURSIVE RenderLoop(_, _)
RenderLoop(acc, msgs) ==
    IF msgs = <<>> THEN acc
    ELSE LET message == Head(msgs)
             next == IF message.role \in DOMAIN role_map
                     THEN Append(acc, [role |-> role_map[message.role],
                                       parts |-> <<[text |-> message.content]>>])
                     ELSE acc
         IN RenderLoop(next, Tail(msgs))

\* Lines 64-70 as a whole.
Render(previous, msgs) == RenderLoop(HistoryInit(previous), msgs)

\* Lines 22 and 29-33: the run stops before the transcript is touched.
StartupHaltsKeyOnly == api_key \in {"None", ""}
StartupHalts == api_key \in {"None", ""} \/ client_error # None

\* The st.error boxes of lines 24, 25 and 32.
StartupErrors ==
    IF api_key \in {"None", ""} THEN <<NoKeyError, NoKeyHint>>
    ELSE <<ClientInitPrefix \o client_error>>

\* Lines 45-49: the transcript is seeded only when the session has none.
SeededAlways(present, msgs) == <<Welcome>>
Seeded(present, msgs) == IF present THEN msgs ELSE <<Welcome>>

\* Lines 92-99: the first matching except clause builds the message.
HandlerGenericFirst(exc) ==
    IF exc.kind \in {"APIError", "Exception"} THEN UnexpectedErrorPrefix \o exc.text
    ELSE ApiErrorPrefix \o exc.text
HandlerNoPrefix(exc) == exc.text
Handler(exc) ==
    IF exc.kind = "APIError" THEN ApiErrorPrefix \o exc.text
    ELSE UnexpectedErrorPrefix \o exc.text

\* Lines 86-87: the accumulator after one chunk.
AccumulatePrepend(acc, text) == IF Truthy(text) THEN text \o acc ELSE acc
Accumulate(acc, text) == IF Truthy(text) THEN acc \o text ELSE acc

\* Line 102: the turn stored for the submission.
AssistantTurn(text) == [role |-> "assistant", content |-> text]

\* Line 102: the append, whatever the text is.
StoreAssistantIfNonEmpty(msgs, text) ==
    IF text = <<>> THEN msgs ELSE Append(msgs, AssistantTurn(text))
StoreAssistant(msgs, text) == Append(msgs, AssistantTurn(text))

\* Line 102 is reached from the end of the try block and from both handlers.
AppendReachedCompletedOnly == pc = "Completed"
AppendReached == pc \in {"Completed", "Failed"}

\* ------------------------------------------------------------------- Init
ClearedLocals ==
    /\ prompt = None
    /\ history = <<>>
    /\ full_response = None
    /\ error_message = None
    /\ message_placeholder = None
    /\ received = <<>>
    /\ raised = NoException
    /\ request = NoRequest

Init ==
    /\ api_key \in ApiKeys
    /\ client_error \in {None} \cup ExcTexts
    /\ messages_set = FALSE
    /\ messages = <<>>
    /\ pc = "Start"
    /\ ClearedLocals
    /\ errors_shown = <<>>
    /\ submissions = 0
    /\ calls = 0

\* ---------------------------------------------------------------- actions
\* Lines 22-33 stop the run: st.error, then st.stop().
Halt ==
    /\ pc' = "Halted"
    /\ errors_shown' = StartupErrors
    /\ UNCHANGED <<messages_set, messages, prompt, history, full_response,
                   message_placeholder, submissions>>

\* One run of the script in which st.chat_input returns nothing: lines 20-54,
\* the test of line 57, lines 105-121.  It is the first run of the session
\* and any later run that no submission started.
Rerun ==
    /\ pc \in {"Start", "Idle", "Halted"}
    /\ UNCHANGED <<env, calls, error_message, received, raised, request>>
    /\ IF StartupHalts
       THEN Halt
       ELSE /\ messages_set' = TRUE
            /\ messages' = Seeded(messages_set, messages)
            /\ errors_shown' = <<>>
            /\ pc' = "Idle"
            /\ UNCHANGED <<prompt, history, full_response,
                           message_placeholder, submissions>>

\* One run of the script started by a submission to the st.chat_input drawn
\* by the run before: lines 20-54, then lines 57-75; the run stands before
\* the provider call.
Submit ==
    /\ pc = "Idle"
    /\ submissions < MaxSubmissions
    /\ UNCHANGED <<env, calls, error_message, received, raised, request>>
    /\ \E p \in Prompts :
          IF StartupHalts
          THEN Halt
          ELSE /\ messages_set' = TRUE
               /\ errors_shown' = <<>>
               /\ messages' = Append(Seeded(messages_set, messages),
                                     [role |-> "user", content |-> p])
               /\ prompt' = p
               /\ history' = Render(history, messages')
               /\ message_placeholder' = None
               /\ full_response' = <<>>
               /\ submissions' = submissions + 1
               /\ pc' = "AwaitingStream"

\* Lines 92-99, entered with the exception exc.  The handlers leave the
\* transcript alone: the turn is stored once, at line 102.
CatchAppending(exc) ==
    /\ raised' = exc
    /\ error_message' = Handler(exc)
    /\ errors_shown' = Append(errors_shown, Handler(exc))
    /\ full_response' = Handler(exc)
    /\ messages' = Append(messages, AssistantTurn(Handler(exc)))
    /\ pc' = "Failed"
CatchKeepingAccumulator(exc) ==
    /\ raised' = exc
    /\ messages' = messages
    /\ error_message' = Handler(exc)
    /\ errors_shown' = Append(errors_shown, Handler(exc))
    /\ full_response' = full_response \o Handler(exc)
    /\ pc' = "Failed"
Catch(exc) ==
    /\ raised' = exc
    /\ messages' = messages
    /\ error_message' = Handler(exc)
    /\ errors_shown' = Append(errors_shown, Handler(exc))
    /\ full_response' = Handler(exc)
    /\ pc' = "Failed"

\* Lines 79-83: the arguments of the call; contents is the whole history.
TheRequestPromptOnly ==
    [model |-> MODEL_NAME,
     contents |-> <<[role |-> "user", parts |-> <<[text |-> prompt]>>]>>,
     system_instruction |-> SYSTEM_INSTRUCTION]
TheRequest == [model |-> MODEL_NAME, contents |-> history,
               system_instruction |-> SYSTEM_INSTRUCTION]

\* Lines 79-83: the call returns a stream.
StreamOpens ==
    /\ pc = "AwaitingStream"
    /\ calls' = calls + 1
    /\ request' = TheRequest
    /\ pc' = "Streaming"
    /\ UNCHANGED <<env, messages_set, messages, prompt, history, full_response,
                   error_message, message_placeholder, errors_shown, received,
                   raised, submissions>>

\* Lines 79-83: the call raises.  The handlers do not call again.
StreamOpenRetries ==
    /\ pc = "AwaitingStream"
    /\ calls < 2 * MaxSubmissions
    /\ calls' = calls + 1
    /\ request' = TheRequest
    /\ UNCHANGED <<env, messages_set, messages, pc, prompt, history,
                   full_response, error_message, message_placeholder,
                   errors_shown, received, raised, submissions>>
StreamOpenRaises ==
    /\ pc = "AwaitingStream"
    /\ calls' = calls + 1
    /\ request' = TheRequest
    /\ \E exc \in Exceptions : Catch(exc)
    /\ UNCHANGED <<env, messages_set, prompt, history,
                   message_placeholder, received, submissions>>

\* Lines 85-88: the stream delivers one more chunk.
ChunkArrives ==
    /\ pc = "Streaming"
    /\ Len(received) < MaxFragments
    /\ \E text \in ChunkTexts :
          /\ received' = Append(received, text)
          /\ full_response' = Accumulate(full_response, text)
          /\ message_placeholder' =
                IF Truthy(text) THEN Accumulate(full_response, text) \o Cursor
                ELSE message_placeholder
    /\ UNCHANGED <<env, messages_set, messages, pc, prompt, history,
                   error_message, errors_shown, raised, request, submissions,
                   calls>>

\* Lines 85 and 90: the stream is exhausted; the cursor is taken away.
StreamEnds ==
    /\ pc = "Streaming"
    /\ message_placeholder' = full_response
    /\ pc' = "Completed"
    /\ UNCHANGED <<env, messages_set, messages, prompt, history, full_response,
                   error_message, errors_shown, received, raised, request,
                   submissions, calls>>

\* Line 85: taking the next chunk raises.
StreamRaises ==
    /\ pc = "Streaming"
    /\ \E exc \in Exceptions : Catch(exc)
    /\ UNCHANGED <<env, messages_set, prompt, history,
                   message_placeholder, received, request, submissions, calls>>

\* Line 102.
AppendAssistant ==
    /\ AppendReached
    /\ messages' = StoreAssistant(messages, full_response)
    /\ pc' = "Sidebar"
    /\ UNCHANGED <<env, messages_set, locals, errors_shown, submissions, calls>>

\* Lines 105-121: the sidebar is drawn and the run ends; the names of the
\* run are gone, the session state stays.
EndRun ==
    /\ pc = "Sidebar"
    /\ pc' = "Idle"
    /\ prompt' = None
    /\ history' = <<>>
    /\ full_response' = None
    /\ error_message' = None
    /\ message_placeholder' = None
    /\ received' = <<>>
    /\ raised' = NoException
    /\ request' = NoRequest
    /\ errors_shown' = <<>>
    /\ UNCHANGED <<env, messages_set, messages, submissions, calls>>

Next ==
    \/ Rerun
    \/ Submit
    \/ StreamOpens
    \/ StreamOpenRaises
    \/ ChunkArrives
    \/ StreamEnds
    \/ StreamRaises
    \/ AppendAssistant
    \/ EndRun

Spec == Init /\ [][Next]_vars

\* The script runs on once started, and the provider goes on delivering:
\* the call returns or raises, the stream yields, ends or raises.
Fairness ==
    /\ WF_vars(StreamOpens \/ StreamOpenRaises)
    /\ WF_vars(ChunkArrives \/ StreamEnds \/ StreamRaises)
    /\ WF_vars(AppendAssistant)
    /\ WF_vars(EndRun)

LiveSpec == Init /\ [][Next]_vars /\ Fairness

\* ------------------------------------------- the render step on its own
\* Lines 64-70 applied, twice in a row, to any transcript of at most
\* MaxTurns turns, turns of a role the role_map does not know included.
RenderRoles == {"user", "assistant", "system"}
RenderTexts == {<<"p">>, <<"a">>}
RenderTurns == [role : RenderRoles, content : RenderTexts]
Transcripts == UNION {[1..n -> RenderTurns] : n \in 0..MaxTurns}

InitRender ==
    /\ api_key = "key"
    /\ client_error = None
    /\ messages_set = TRUE
    /\ messages \in Transcripts
    /\ pc = "RenderInput"
    /\ ClearedLocals
    /\ errors_shown = <<>>
    /\ submissions = 0
    /\ calls = 0

RenderStep ==
    /\ pc \in {"RenderInput", "RenderedOnce"}
    /\ history' = Render(history, messages)
    /\ pc' = IF pc = "RenderInput" THEN "RenderedOnce" ELSE "RenderedTwice"
    /\ UNCHANGED <<env, messages_set, messages, prompt, full_response,
                   error_message, message_placeholder, errors_shown, received,
                   raised, request, submissions, calls>>

NextRender == RenderStep

RenderSpec == InitRender /\ [][NextRender]_vars

\* The handler and the render step on its own, side by side: a behaviour is
\* a session of the script or an application of lines 64-70 to a transcript.
InitSessionOrRender == Init \/ InitRender

NextSessionOrRender == Next \/ NextRender

SessionOrRenderSpec == InitSessionOrRender /\ [][NextSessionOrRender]_vars

\* ===================================================================== claims
\* What the claims speak of, spelled out apart from the model's operators.
Last(seq) == seq[Len(seq)]
HasErrorIndicator(text) ==
    IsPrefix(ApiErrorPrefix, text) \/ IsPrefix(UnexpectedErrorPrefix, text)
UserTurns == {i \in 1..Len(messages) : messages[i].role = "user"}
AssistantTurns == {i \in 1..Len(messages) : messages[i].role = "assistant"}
\* Every stored response so far came from a stream that ended normally.
AllSucceeded ==
    \A i \in AssistantTurns : ~HasErrorIndicator(messages[i].content)
\* f1 + ... + fk, a fragment without text counting as the empty text.
RECURSIVE Concat(_)
Concat(fragments) ==
    IF fragments = <<>> THEN <<>>
    ELSE (IF Head(fragments) = None THEN <<>> ELSE Head(fragments))
         \o Concat(Tail(fragments))

\* C1: once the handler is idle again after N submissions that all succeeded,
\* the transcript holds 1 + 2N turns: the welcome turn, N user turns and N
\* further assistant turns.
C1_LengthAfterSuccesses ==
    (pc = "Idle" /\ AllSucceeded) =>
        /\ Len(messages) = 1 + 2 * submissions
        /\ messages[1] = Welcome
        /\ Cardinality(UserTurns) = submissions
        /\ Cardinality(AssistantTurns) = 1 + submissions

C1_Witness ==
    /\ pc = "Idle"
    /\ AllSucceeded
    /\ submissions = 2
    /\ Len(messages) = 5
    /\ messages[3].content = <<"a", "b">>
    /\ messages[5].content = <<>>

\* C2: when the provider call raises, at the call or after k fragments, the
\* submission still adds exactly its user turn and then exactly one assistant
\* turn, whose content is not empty and carries an error indicator.
C2_FailureStillAppendsOnce ==
    /\ (pc = "Failed") =>
          /\ Len(messages) = 2 * submissions
          /\ Last(messages) = [role |-> "user", content |-> prompt]
    /\ (pc = "Sidebar" /\ raised # NoException) =>
          /\ Len(messages) = 1 + 2 * submissions
          /\ messages[Len(messages) - 1] = [role |-> "user", content |-> prompt]
          /\ Last(messages).role = "assistant"
          /\ Last(messages).content # <<>>
          /\ HasErrorIndicator(Last(messages).content)
    /\ (pc = "Idle" /\ messages_set) => Len(messages) = 1 + 2 * submissions

C2_Witness ==
    /\ pc = "Sidebar"
    /\ raised = [kind |-> "Exception", text |-> <<>>]
    /\ Last(messages).content = UnexpectedErrorPrefix
    /\ received = <<<<"a">>, <<"b">>>>
    /\ Len(messages) = 3

\* C3: when the stream ends normally after delivering f1..fk, the text shown
\* last and the content stored for the assistant turn both are f1 + ... + fk
\* in arrival order, with no cursor marker added.
C3_StoredIsConcatenation ==
    /\ (pc = "Completed") =>
          /\ message_placeholder = Concat(received)
          /\ full_response = Concat(received)
    /\ (pc = "Sidebar" /\ raised = NoException) =>
          /\ message_placeholder = Concat(received)
          /\ Last(messages) = [role |-> "assistant", content |-> Concat(received)]

C3_Witness ==
    /\ pc = "Sidebar"
    /\ raised = NoException
    /\ received = <<<<"a">>, <<"b">>>>
    /\ Last(messages).content = <<"a", "b">>
    /\ message_placeholder = <<"a", "b">>

\* C4: for a transcript of user and assistant turns only, the render has the
\* transcript's length, entry i has role "user" for a user turn and "model"
\* for an assistant turn, and its one text part is turn i's content.
C4_RenderMapsEveryTurn ==
    (pc # "RenderInput" /\ \A i \in 1..Len(messages) :
                              messages[i].role \in {"user", "assistant"}) =>
        /\ Len(history) = Len(messages)
        /\ \A i \in 1..Len(messages) :
              /\ history[i].role =
                    (IF messages[i].role = "user" THEN "user" ELSE "model")
              /\ history[i].parts = <<[text |-> messages[i].content]>>

C4_Witness ==
    /\ pc = "RenderedOnce"
    /\ Len(messages) = 3
    /\ messages[1].role = "user" /\ messages[2].role = "user"
    /\ messages[3].role = "assistant"
    /\ messages[1].content # messages[2].content
    /\ Len(history) = 3

\* C5: with no credential at startup, or with a client that cannot be built,
\* the session halts before the submission loop: the transcript is never
\* created, no submission is handled, no provider call is made.
C5_StartupFailureHalts ==
    (api_key \in {"None", ""} \/ client_error # None) =>
        /\ ~messages_set
        /\ messages = <<>>
        /\ submissions = 0
        /\ calls = 0
        /\ request = NoRequest
        /\ pc \in {"Start", "Halted"}

C5_Witness ==
    /\ pc = "Halted"
    /\ api_key = "None"
    /\ errors_shown = <<NoKeyError, NoKeyHint>>

\* C6: the transcript is append-only: over every step the transcript before
\* is a prefix of the transcript after, so no stored turn is removed, moved
\* or changed, and once it exists its first turn is the seeded welcome turn.
C6_AppendOnly ==
    [][/\ IsPrefix(messages, messages')
       /\ (messages_set => messages_set')
       /\ (messages_set' => (Len(messages') >= 1 /\ messages'[1] = Welcome))]_vars

C6_Witness ==
    /\ pc = "AwaitingStream"
    /\ submissions = 2
    /\ Len(messages) = 4
    /\ HasErrorIndicator(messages[3].content)

\* C7: a failure of the provider call is handled by exactly one of two
\* handlers: an APIError gives the API-error prefix followed by str(e), any
\* other exception gives the unexpected-error prefix followed by str(e); that
\* one string is shown as the error box and is the content of the assistant
\* turn stored for the submission.  Without a failure no error box is shown.
C7_FailureClassified ==
    /\ (pc \in {"Failed", "Sidebar"} /\ raised # NoException) =>
          /\ raised.kind = "APIError" =>
                error_message = ApiErrorPrefix \o raised.text
          /\ raised.kind # "APIError" =>
                error_message = UnexpectedErrorPrefix \o raised.text
          /\ errors_shown = <<error_message>>
          /\ full_response = error_message
          /\ pc = "Sidebar" =>
                Last(messages) = [role |-> "assistant", content |-> error_message]
    /\ (pc \in {"AwaitingStream", "Streaming", "Completed", "Sidebar"}
            /\ raised = NoException) =>
          /\ errors_shown = <<>>
          /\ error_message = None
    /\ (pc \in {"Failed"}) => raised \in Exceptions

C7_Witness ==
    /\ pc = "Sidebar"
    /\ raised = [kind |-> "APIError", text |-> <<"e">>]
    /\ Last(messages).content = ApiErrorPrefix \o <<"e">>
    /\ errors_shown = <<ApiErrorPrefix \o <<"e">>>>

\* C8: the render step applied a second time to the same transcript gives the
\* output it gave the first time, and no application changes the transcript.
C8_RenderRepeatable ==
    [][/\ messages' = messages
       /\ (pc = "RenderedOnce" /\ pc' = "RenderedTwice") => history' = history]_vars

C8_Witness ==
    /\ pc = "RenderedTwice"
    /\ Len(messages) = 3
    /\ Len(history) = 2

\* C9: a submission goes Idle -> AwaitingStream -> Streaming -> Completed or
\* Failed -> Idle.  The user turn is stored on leaving Idle, before the call;
\* the call is made on leaving AwaitingStream; Streaming is re-entered once
\* per fragment; Failed is entered from AwaitingStream or Streaming exactly
\* when an exception was caught, Completed only without one; the assistant
\* turn is stored only on leaving Completed or Failed, and the handler is
\* then idle again (the sidebar is drawn in between).
C9_PhaseOrder ==
    [][/\ (pc = "Idle") =>
             /\ pc' \in {"Idle", "AwaitingStream"}
             /\ pc' = "AwaitingStream" =>
                   /\ messages' = Append(messages, [role |-> "user", content |-> prompt'])
                   /\ calls' = calls
                   /\ submissions' = submissions + 1
       /\ (pc = "AwaitingStream") =>
             /\ pc' \in {"Streaming", "Failed"}
             /\ calls' = calls + 1
             /\ messages' = messages
       /\ (pc = "Streaming") =>
             /\ pc' \in {"Streaming", "Completed", "Failed"}
             /\ calls' = calls
             /\ messages' = messages
             /\ (pc' = "Streaming") <=> (Len(received') = Len(received) + 1)
       /\ (pc' = "Failed") => (pc # "Failed" /\ raised = NoException /\ raised' \in Exceptions)
       /\ (pc' = "Completed") => (pc = "Streaming" /\ raised' = NoException)
       /\ (pc \in {"Completed", "Failed"}) =>
             /\ pc' = "Sidebar"
             /\ (pc = "Completed") <=> (raised = NoException)
             /\ Len(messages') = Len(messages) + 1
             /\ Last(messages').role = "assistant"
       /\ (pc = "Sidebar") => (pc' = "Idle" /\ messages' = messages)
       /\ (Len(messages) >= 1 /\ messages' # messages
               /\ Last(messages').role = "assistant") =>
             pc \in {"Completed", "Failed"}]_vars

C9_Witness ==
    /\ pc = "Streaming"
    /\ submissions = 2
    /\ Len(received) = 2
    /\ HasErrorIndicator(messages[3].content)
    /\ Last(messages).role = "user"

\* C10: with the provider delivering and the fragment sequence finite, every
\* submission the handler has taken reaches Completed or Failed, has its
\* assistant turn stored, and leaves the handler idle again.
C10_SubmissionFinishes ==
    \A n \in 1..MaxSubmissions :
        /\ (pc = "AwaitingStream" /\ submissions = n)
              ~> (pc \in {"Completed", "Failed"} /\ submissions = n)
        /\ (pc = "AwaitingStream" /\ submissions = n)
              ~> (/\ pc = "Idle"
                  /\ Len(messages) = 1 + 2 * n
                  /\ messages[1 + 2 * n].role = "assistant")

C10_Witness ==
    /\ pc = "Idle"
    /\ submissions = 2
    /\ Len(messages) = 5
    /\ HasErrorIndicator(messages[3].content)
    /\ HasErrorIndicator(messages[5].content)

\* C11: whenever the handler is idle the transcript is the welcome turn
\* followed by (user, assistant) pairs: roles alternate from the assistant
\* welcome turn and the length is odd; while a submission is in flight the
\* transcript is that shape followed by exactly one user turn.  No two
\* consecutive turns ever have the same role.
C11_Alternation ==
    /\ \A i \in 1..Len(messages) :
          messages[i].role = (IF i % 2 = 1 THEN "assistant" ELSE "user")
    /\ (pc \in {"Idle", "Sidebar"}) =>
          (Len(messages) % 2 = 1 /\ messages[1] = Welcome)
    /\ (pc \in {"AwaitingStream", "Streaming", "Completed", "Failed"}) =>
          /\ Len(messages) % 2 = 0
          /\ Len(messages) >= 2
          /\ Last(messages) = [role |-> "user", content |-> prompt]
    /\ \A i \in 1..(Len(messages) - 1) : messages[i].role # messages[i + 1].role

C11_Witness ==
    /\ pc = "Completed"
    /\ submissions = 2
    /\ Len(messages) = 4
    /\ messages[3].content = <<>>
    /\ received = <<>>

\* C12: one provider call is made per submission, whether it succeeds or
\* fails: before the call of the current submission the number of calls is
\* the number of submissions less one, from the call on it is the number of
\* submissions, so after N handled submissions it is N; no call is made
\* before the first submission, and a failed call is not made again.
C12_OneCallPerSubmission ==
    /\ calls <= submissions
    /\ (pc \in {"Start", "Halted"}) => (calls = 0 /\ submissions = 0)
    /\ (pc = "AwaitingStream") => (calls = submissions - 1 /\ request = NoRequest)
    /\ (pc \in {"Streaming", "Completed", "Failed", "Sidebar"}) =>
          (calls = submissions /\ request # NoRequest)
    /\ (pc = "Idle") => (calls = submissions /\ request = NoRequest)

C12_Witness ==
    /\ pc = "Idle"
    /\ submissions = 2
    /\ calls = 2
    /\ HasErrorIndicator(messages[3].content)
    /\ ~HasErrorIndicator(messages[5].content)

\* C13: the request of the k-th submission carries the render of the whole
\* transcript as it stands at the call: 2k entries, the first the welcome
\* turn as "model", the last the user turn just submitted as "user", every
\* earlier turn in place with assistant turns (error strings included) as
\* "model"; the model identifier and the system directive are the same fixed
\* values on every request, and the directive is no turn of the transcript.
C13_RequestCarriesFullTranscript ==
    /\ (request # NoRequest) =>
          /\ Len(request.contents) = 2 * submissions
          /\ request.contents[1] =
                [role |-> "model", parts |-> <<[text |-> WelcomeText]>>]
          /\ Last(request.contents) =
                [role |-> "user", parts |-> <<[text |-> prompt]>>]
          /\ \A i \in 1..(2 * submissions) :
                /\ request.contents[i].role =
                      (IF messages[i].role = "assistant" THEN "model" ELSE "user")
                /\ request.contents[i].parts = <<[text |-> messages[i].content]>>
          /\ request.model = MODEL_NAME
          /\ request.system_instruction = SYSTEM_INSTRUCTION
    /\ \A i \in 1..Len(messages) : messages[i].content # SYSTEM_INSTRUCTION

C13_Witness ==
    /\ pc = "Streaming"
    /\ submissions = 2
    /\ Len(request.contents) = 4
    /\ request.contents[3] =
          [role |-> "model", parts |-> <<[text |-> ApiErrorPrefix \o <<"e">>]>>]
    /\ request.contents[4].role = "user"

\* sub occurs in text as a run of consecutive tokens.
Contains(sub, text) ==
    \E i \in 0..(Len(text) - Len(sub)) : SubSeq(text, i + 1, i + Len(sub)) = sub

\* C14 as stated: on completion and on failure alike, the text stored as the
\* assistant turn is the text accumulated from the fragments received, so
\* the fragments received before a failure are part of the stored turn.
C14_StoredIsAccumulatedAlways ==
    (pc = "Sidebar") =>
        /\ (raised = NoException) => Last(messages).content = Concat(received)
        /\ Contains(Concat(received), Last(messages).content)

\* C14 as amended: on completion the stored text is the text accumulated
\* from the fragments; on failure it is the error string alone (the prefix
\* of the handler that ran, then str(e)), and the text accumulated before
\* the failure is discarded, not stored.
C14_StoredIsAccumulatedOrError ==
    (pc = "Sidebar") =>
        /\ (raised = NoException) => Last(messages).content = Concat(received)
        /\ (raised # NoException) =>
              /\ Last(messages).content =
                    (IF raised.kind = "APIError" THEN ApiErrorPrefix
                     ELSE UnexpectedErrorPrefix) \o raised.text
              /\ (Concat(received) # <<>>) =>
                    ~Contains(Concat(received), Last(messages).content)

C14_Witness ==
    /\ pc = "Sidebar"
    /\ raised = [kind |-> "APIError", text |-> <<"e">>]
    /\ received = <<<<"b">>, <<"a">>>>
    /\ message_placeholder = <<"b", "a">> \o Cursor
    /\ Last(messages).content = ApiErrorPrefix \o <<"e">>

\* The text ends with the cursor marker.
EndsWithCursor(text) ==
    Len(text) >= Len(Cursor)
        /\ SubSeq(text, Len(text) - Len(Cursor) + 1, Len(text)) = Cursor

\* C15: while streaming, the response area shows accumulator + cursor marker
\* after a fragment with text; once the submission has finished (its turn is
\* stored and the run is about to end), whatever the response area shows
\* last carries no cursor marker and equals the content stored for the
\* submission's assistant turn.
C15_CursorRemovedWhenFinished ==
    /\ (pc = "Streaming" /\ message_placeholder # None) =>
          message_placeholder = full_response \o Cursor
    /\ (pc = "Sidebar" /\ message_placeholder # None) =>
          /\ ~EndsWithCursor(message_placeholder)
          /\ message_placeholder = Last(messages).content

\* The turns of msgs whose role the render knows, in order.
KnownRole(message) == message.role \in {"user", "assistant"}
Recognized(msgs) == SelectSeq(msgs, KnownRole)

\* C16: applied to a transcript that holds turns of a role other than user
\* and assistant, the render step drops exactly those turns and raises
\* nothing: its output is the render, in order, of the turns with a known
\* role, so its length is the number of such turns.  In every state of a
\* session every stored turn has a known role, so the history built for a
\* request has one entry per stored turn: nothing is dropped.
C16_UnknownRolesDropped ==
    /\ (pc \in {"RenderedOnce", "RenderedTwice"}) =>
          LET kept == Recognized(messages) IN
          /\ Len(history) = Len(kept)
          /\ Len(history) =
                Cardinality({i \in 1..Len(messages) : KnownRole(messages[i])})
          /\ \A i \in 1..Len(kept) :
                /\ history[i].role =
                      (IF kept[i].role = "user" THEN "user" ELSE "model")
                /\ history[i].parts = <<[text |-> kept[i].content]>>
    /\ (pc \notin {"RenderInput", "RenderedOnce", "RenderedTwice"}) =>
          /\ \A i \in 1..Len(messages) : KnownRole(messages[i])
          /\ (pc \in {"AwaitingStream", "Streaming", "Completed", "Failed"}) =>
                Len(history) = Len(messages)
          /\ (request # NoRequest) =>
                Len(request.contents) = 2 * submissions

C16_Witness ==
    /\ pc = "RenderedOnce"
    /\ Len(messages) = 3
    /\ messages[1].role = "user"
    /\ messages[2].role = "system"
    /\ messages[3].role = "assistant"
    /\ Len(history) = 2
    /\ history[2].role = "model"

\* A chunk without text: chunk.text missing or empty.
NoText(text) == text \in {None, <<>>}

\* C17: a chunk whose text is empty or missing is skipped: taking it changes
\* neither the accumulator nor what the response area shows, and raises
\* nothing.  So a stream that ends normally having delivered no chunk with
\* text is completed, not failed: the assistant turn stored for it has the
\* empty string as content (one turn more, as for any submission), and any
\* later request carries that turn as a "model" entry with an empty text.
C17_EmptyFragmentsSkipped ==
    [][/\ (pc = "Streaming" /\ Len(received') = Len(received) + 1
              /\ NoText(Last(received'))) =>
             /\ full_response' = full_response
             /\ message_placeholder' = message_placeholder
             /\ pc' = "Streaming"
             /\ raised' = NoException
             /\ errors_shown' = errors_shown
       /\ (pc = "Streaming" /\ pc' = "Completed"
              /\ \A i \in 1..Len(received) : NoText(received[i])) =>
             /\ full_response' = <<>>
             /\ message_placeholder' = <<>>
       /\ (pc = "Completed" /\ pc' = "Sidebar"
              /\ \A i \in 1..Len(received) : NoText(received[i])) =>
             messages' = Append(messages, [role |-> "assistant", content |-> <<>>])
       /\ (pc = "AwaitingStream" /\ pc' # "AwaitingStream") =>
             \A i \in 1..Len(messages) :
                (messages[i] = [role |-> "assistant", content |-> <<>>]) =>
                   request'.contents[i] =
                      [role |-> "model", parts |-> <<[text |-> <<>>]>>]]_vars

C17_Witness ==
    /\ pc = "Streaming"
    /\ submissions = 2
    /\ messages[3] = [role |-> "assistant", content |-> <<>>]
    /\ request.contents[3] = [role |-> "model", parts |-> <<[text |-> <<>>]>>]
    /\ received = <<<<>>, None>>
    /\ full_response = <<>>
    /\ message_placeholder = None

====
